---- MODULE Spec2Model ----
\* Edge relay pipeline of the Raspberry Pi module (src/raspberry-pi/raspberry-pi):
\* capture loop and local-storage eviction (CameraManager), upload queue,
\* executor tasks, retry and quarantine (GCPUploader), connectivity state
\* (NetworkManager) and the loops of DisasterCameraSystem that drive them.
EXTENDS Integers, Sequences, FiniteSets, TLC

\* ------------------------------------------------------------------ bounds
\* Number of capture_image calls of one run.
MaxFiles == 2
\* Number of retry_failed_uploads calls of one run.
MaxReplays == 1
\* Number of storage / API failures the environment injects in one run.
MaxFailures == 2
\* Seconds after which the model stops telling ages apart (first age > 30).
MaxAge == 45

\* --------------------------------------------------------- program constants
\* check_connectivity re-probes when the last test is older than this.
StalenessSeconds == 30
\* The clock advances in steps of the network monitor interval.
TickSeconds == 15
\* ThreadPoolExecutor(max_workers=2).
MaxWorkers == 2

\* Configurations a run starts from.
RetryAttemptsValues == {0, 1, 2}
MaxImagesValues == {1, 2}
PrimaryInterface == "4g"
FallbackInterface == "wifi"

\* Interface types _connect_interface knows.
InterfaceTypes == {"4g", "wifi", "ethernet"}
\* Threads that call _establish_connection: the network monitor loop
\* (reconnect) and an operator / the main thread (initialize, reconnect).
NetThreads == {"monitor", "operator"}

FileIds == 1..MaxFiles
Workers == 1..MaxWorkers
NoTask == 0

\* GPSTracker: config min_satellites; satellite counts and fix qualities
\* the receiver reports are cut at MaxSatellites and MaxFixQuality.
MinSatellites == 4
MaxSatellites == 4
MaxFixQuality == 1
GpsModes == {"new", "disabled", "serial", "mock", "closed"}

\* DisasterCameraSystem: the components in the order initialize_components
\* brings them up, and in the order stop() cleans them.
MaxStops == 2
Components == <<"camera", "network", "uploader", "gps", "monitor">>
CleanupOrder == <<"camera", "network", "uploader", "gps", "monitor">>
ComponentNames == {Components[i] : i \in 1..Len(Components)}

\* The capture loop of the main thread and the three background threads.
LoopNames == {"capture", "monitor", "network", "upload"}

\* Each initialize catches its exceptions and returns a bool; constructing
\* the camera, the network manager or the uploader can raise.
InitOutcomes(c) ==
    IF c \in {"gps", "monitor"} THEN {"ok", "false"}
    ELSE {"ok", "false", "raise"}

\* Mutant of AbortsOnFalse: every False result ends initialize_components.
AbortsOnFalseAll(c) == TRUE

\* 'if not X.initialize(): return False' is written for the camera, the
\* network manager and the uploader; the GPS result only logs a warning and
\* the monitor's result is not read.
AbortsOnFalse(c) == c \in {"camera", "network", "uploader"}

\* What GPSTracker.initialize returns in each mode it can end in.
GpsInitializeResult(mode) == IF mode = "closed" THEN "false" ELSE "ok"

\* The empty dict get_current_location returns for "no fix".
EmptyDict == [position |-> FALSE, satellites |-> 0, fix_quality |-> 0]

\* Mutant of EnoughSatellites: one satellite less is accepted.
EnoughSatellitesLax(n) == n >= MinSatellites - 1

\* current_location['satellites'] >= self.min_satellites
EnoughSatellites(n) == n >= MinSatellites

\* get_current_location: a copy of current_location when latitude and
\* longitude are set and the satellites suffice, else {}.
GetCurrentLocationResult(loc) ==
    IF loc.position /\ EnoughSatellites(loc.satellites) THEN loc ELSE EmptyDict

\* is_valid_fix: the same tests and fix_quality > 0.
IsValidFixResult(loc) ==
    /\ loc.position
    /\ EnoughSatellites(loc.satellites)
    /\ loc.fix_quality > 0

VARIABLES
    \* CameraManager / local storage
    files,              \* image files in storage_path; ids grow with mtime
    next_file,          \* id of the next captured file
    max_images,         \* config max_local_images
    \* DisasterCameraSystem._main_capture_loop bookkeeping
    captures_ok,        \* successful capture_image calls of the loop
    loop_pushed,        \* add_to_queue calls the loop reached
    \* GCPUploader
    retry_attempts,     \* config retry_attempts
    cleanup_after_upload, \* config cleanup_after_upload
    records,            \* upload_item dicts created by add_to_queue
    upload_queue,       \* Queue of upload items
    retry_count,        \* upload_item['retry_count']
    failed_uploads,     \* list of permanently failed items
    upload_stats,       \* total / successful / failed counters
    exec_pending,       \* work queue of upload_executor
    task,               \* item each executor thread runs _upload_item on
    pc,                 \* where each executor thread is in _upload_item
    replay_idx,         \* list iterator of retry_failed_uploads (0: not running)
    replays,            \* retry_failed_uploads calls so far
    \* history of the records
    attempts,           \* storage upload attempts per record
    pf_count,           \* transitions to PermanentlyFailed per record
    replayed,           \* items re-queued by retry_failed_uploads
    uploaded,           \* records counted as successful
    discarded,          \* records dropped as stale
    failures,           \* storage / API failures injected so far
    \* NetworkManager
    current_interface,
    connected,          \* connectivity_status['connected']
    status_interface,   \* connectivity_status['interface']
    age,                \* time.time() - last_test_time, capped at MaxAge
    ok_age,             \* seconds since the last successful probe, capped
    report,             \* last connectivity answer handed to a caller
    connection_lock,    \* holder of connection_lock, or "free"
    est_pc,             \* where each caller of _establish_connection is
    est_log,            \* interfaces the caller's current / last call attempted
    est_ret,            \* what the caller's last _establish_connection returned
    \* GPSTracker
    current_location,   \* position known?, satellites, fix_quality
    gps_mode,           \* what initialize started: reader thread or mock loop
    location_out,       \* last dict returned by get_current_location
    valid_out,          \* last answer of is_valid_fix
    gps_data,           \* upload_item['gps_data']
    \* DisasterCameraSystem life cycle
    life,               \* where the main thread is in start()
    running,            \* self.running
    threads_started,    \* _start_background_threads has run
    component,          \* state of each component attribute ("none": None)
    init_log,           \* components start() has tried to bring up, in order
    init_result,        \* how each bring-up ended
    stop_stack,         \* running stop() calls, innermost last
    last_stop,          \* components cleaned by the last finished stop()
    stops,              \* stop() calls so far
    loops,              \* where each 'while self.running' loop is
    \* the network outside the device
    link_up,            \* a probe or a remote call made now succeeds
    link_stable,        \* the link has stopped flapping
    \* SystemMonitor.check_health
    stats,              \* the sample returned by get_system_stats()
    health,             \* the health dict being built: status, warnings, alerts
    health_pc,          \* position of the running check_health call
    \* remote storage
    now_hour,           \* the hour of datetime.now()
    blobs,              \* per record, the blob names written in the bucket
    \* GCPUploader.cleanup
    cleanup_pc,         \* where stop() is with the uploader's executor
    remaining_items,    \* the list cleanup drains the queue into
    unsubmitted,        \* items whose upload_executor.submit raised
    \* NetworkManager.switch_interface
    switch_ret,         \* what the last switch_interface call returned
    disconnected        \* the interface its _disconnect_interface took down

camVars == <<files, next_file, max_images, captures_ok, loop_pushed>>
upVars == <<retry_attempts, cleanup_after_upload, records, upload_queue,
            retry_count, failed_uploads, upload_stats, exec_pending, task, pc,
            replay_idx, replays>>
histVars == <<attempts, pf_count, replayed, uploaded, discarded, failures>>
statusVars == <<connected, status_interface, age, ok_age>>
estVars == <<connection_lock, est_pc, est_log, est_ret>>
netVars == <<current_interface, statusVars, report, estVars>>
pipeVars == <<camVars, upVars, histVars, netVars>>
gpsVars == <<current_location, gps_mode, location_out, valid_out>>
lifeVars == <<life, running, threads_started, component, init_log, init_result,
              stop_stack, last_stop, stops, loops>>
envVars == <<link_up, link_stable>>
healthVars == <<stats, health, health_pc>>
keyVars == <<now_hour, blobs>>
shutVars == <<cleanup_pc, remaining_items, unsubmitted>>
switchVars == <<switch_ret, disconnected>>
extVars == <<gps_data, gpsVars, lifeVars, envVars, healthVars, keyVars,
             shutVars, switchVars>>
vars == <<pipeVars, extVars>>

\* ----------------------------------------------------------------- helpers
Min(a, b) == IF a < b THEN a ELSE b
Max(a, b) == IF a > b THEN a ELSE b

RECURSIVE Count(_, _)
Count(s, x) ==
    IF s = <<>> THEN 0
    ELSE (IF Head(s) = x THEN 1 ELSE 0) + Count(Tail(s), x)

InSeq(s, x) == \E i \in 1..Len(s) : s[i] = x

\* pcs of _upload_item in which the thread still owns the item
HoldingPcs == {"gcs", "api", "stats_ok", "unlink", "fail"}
\* pcs before the attempt has been decided
UploadingPcs == {"gcs", "api", "stats_ok", "fail"}

HeldBy(t, r) == task[t] = r /\ pc[t] \in HoldingPcs

\* The record state of spec section 3, read off the uploader's structures.
RecState(r) ==
    IF r \notin records THEN "NoRecord"
    ELSE IF InSeq(upload_queue, r) THEN "Queued"
    ELSE IF InSeq(exec_pending, r)
            \/ \E t \in Workers : task[t] = r /\ pc[t] \in UploadingPcs
        THEN "Uploading"
    ELSE IF InSeq(failed_uploads, r) THEN "PermanentlyFailed"
    ELSE IF r \in uploaded THEN "Uploaded"
    ELSE IF r \in discarded THEN "Discarded"
    ELSE "Unknown"

\* ----------------------------------------------- SystemMonitor constants
\* SystemMonitor.__init__ defaults.
TemperatureLimit == 80
MemoryLimit == 90
DiskLimit == 95
CpuLimit == 85

\* Samples on and next to every comparison of check_health, in whole
\* degrees and whole percents; 0 is the value stats.get() falls back to.
TemperatureValues ==
    {0, TemperatureLimit - 10, TemperatureLimit - 9,
     TemperatureLimit, TemperatureLimit + 1}
MemoryValues ==
    {0, MemoryLimit - 10, MemoryLimit - 9, MemoryLimit, MemoryLimit + 1}
DiskValues == {0, DiskLimit - 5, DiskLimit - 4, DiskLimit, DiskLimit + 1}
CpuValues == {0, CpuLimit, CpuLimit + 1}

\* What get_system_stats() can return.
StatsValues ==
    [temperature : TemperatureValues,
     memory_percent : MemoryValues,
     disk_percent : DiskValues,
     cpu_percent : CpuValues,
     currently_throttled : BOOLEAN,
     under_voltage_detected : BOOLEAN]

\* last_stats = {} : every stats.get() returns its default.
NoStats ==
    [temperature |-> 0, memory_percent |-> 0, disk_percent |-> 0,
     cpu_percent |-> 0, currently_throttled |-> FALSE,
     under_voltage_detected |-> FALSE]

\* The health dict check_health starts from.
NewHealth == [status |-> "healthy", warnings |-> <<>>, alerts |-> <<>>]

\* ------------------------------------------------------------------- Init
\* The state after the constructors: CameraManager.__init__, GCPUploader.__init__,
\* NetworkManager.__init__ (last_test_time = 0, so the first check is stale).
InitConstructed ==
    /\ files = {}
    /\ next_file = 1
    /\ captures_ok = 0
    /\ loop_pushed = 0
    /\ retry_attempts \in RetryAttemptsValues
    /\ cleanup_after_upload \in BOOLEAN
    /\ records = {}
    /\ upload_queue = <<>>
    /\ retry_count = [r \in FileIds |-> 0]
    /\ failed_uploads = <<>>
    /\ upload_stats = [total_uploads |-> 0, successful_uploads |-> 0,
                       failed_uploads |-> 0]
    /\ exec_pending = <<>>
    /\ task = [t \in Workers |-> NoTask]
    /\ pc = [t \in Workers |-> "idle"]
    /\ replay_idx = 0
    /\ replays = 0
    /\ attempts = [r \in FileIds |-> 0]
    /\ pf_count = [r \in FileIds |-> 0]
    /\ replayed = [r \in FileIds |-> 0]
    /\ uploaded = {}
    /\ discarded = {}
    /\ failures = 0
    /\ current_interface = "none"
    /\ connected = FALSE
    /\ status_interface = "none"
    /\ age = MaxAge
    /\ ok_age = MaxAge
    /\ report = [op |-> "none", connected |-> FALSE, ok_age |-> MaxAge]
    /\ connection_lock = "free"
    /\ est_pc = [n \in NetThreads |-> "idle"]
    /\ est_log = [n \in NetThreads |-> <<>>]
    /\ est_ret = [n \in NetThreads |-> "none"]
    /\ current_location = [position |-> FALSE, satellites |-> 0,
                           fix_quality |-> 0]
    /\ location_out = EmptyDict
    /\ valid_out = FALSE
    /\ gps_data = [r \in FileIds |-> EmptyDict]
    /\ link_up = FALSE
    /\ link_stable = FALSE
    /\ stats = NoStats
    /\ health = NewHealth
    /\ health_pc = "idle"
    /\ now_hour = 0
    /\ blobs = [r \in FileIds |-> {}]
    /\ cleanup_pc = "idle"
    /\ remaining_items = <<>>
    /\ unsubmitted = {}
    /\ switch_ret = "none"
    /\ disconnected = "none"

\* DisasterCameraSystem.__init__: every component attribute is None, nothing
\* runs.
LifeCreated ==
    /\ gps_mode = "new"
    /\ life = "created"
    /\ running = FALSE
    /\ threads_started = FALSE
    /\ component = [c \in ComponentNames |-> "none"]
    /\ init_log = <<>>
    /\ init_result = [c \in ComponentNames |-> "none"]
    /\ stop_stack = <<>>
    /\ last_stop = <<>>
    /\ stops = 0
    /\ loops = [l \in LoopNames |-> "idle"]

Init ==
    /\ InitConstructed
    /\ LifeCreated
    /\ max_images \in MaxImagesValues

\* ------------------------------------------------------- CameraManager
\* image_files[:-max_images] of the list sorted by mtime: everything but the
\* max_images newest; the slice [:-0] is empty.
CleanupOldImages(fs, cap) ==
    IF Cardinality(fs) > cap
    THEN IF cap = 0 THEN {}
         ELSE {f \in fs : Cardinality({g \in fs : g > f}) >= cap}
    ELSE {}

\* gps_tracker.is_active is the bool attribute set in __init__, which shadows
\* the method of the same name: calling it raises TypeError.
IsActiveCall == "TypeError"

\* add_to_queue: a fresh item with retry_count 0, put at the tail.
AddToQueueEffect(f) ==
    /\ records' = records \cup {f}
    /\ retry_count' = [retry_count EXCEPT ![f] = 0]
    /\ upload_queue' = Append(upload_queue, f)

\* One iteration of _main_capture_loop: capture_image (which ends with
\* _cleanup_old_images), then the GPS lookup and add_to_queue; an exception
\* anywhere ends the iteration.
MainCaptureLoop(ok) ==
    /\ next_file <= MaxFiles
    /\ IF ok
       THEN LET f == next_file
                all == files \cup {f}
                del == CleanupOldImages(all, max_images)
            IN  /\ files' = all \ del
                /\ next_file' = f + 1
                /\ captures_ok' = captures_ok + 1
                /\ IF IsActiveCall = "TypeError"
                   THEN UNCHANGED <<loop_pushed, records, retry_count, upload_queue,
                                    gps_data>>
                   ELSE /\ loop_pushed' = loop_pushed + 1
                        /\ AddToQueueEffect(f)
                        /\ gps_data' = [gps_data EXCEPT ![f] =
                                           GetCurrentLocationResult(current_location)]
       ELSE UNCHANGED <<files, next_file, captures_ok, loop_pushed,
                        records, retry_count, upload_queue, gps_data>>
    /\ UNCHANGED <<max_images, retry_attempts, cleanup_after_upload,
                   failed_uploads, upload_stats, exec_pending, task, pc,
                   replay_idx, replays, attempts, pf_count, replayed, uploaded,
                   discarded, failures, netVars>>
    /\ UNCHANGED <<gpsVars, lifeVars, envVars, healthVars, keyVars, shutVars, switchVars>>

\* ---------------------------------------------------------- GCPUploader
\* add_to_queue called on the path of a stored image, with the location its
\* caller last obtained from get_current_location ('gps_data or {}').
AddToQueue(f) ==
    /\ f \in files
    /\ f \notin records
    /\ AddToQueueEffect(f)
    /\ gps_data' = [gps_data EXCEPT ![f] = location_out]
    /\ UNCHANGED <<gpsVars, lifeVars, envVars, healthVars, keyVars, shutVars, switchVars>>
    /\ UNCHANGED <<camVars, retry_attempts, cleanup_after_upload, failed_uploads,
                   upload_stats, exec_pending, task, pc, replay_idx, replays,
                   histVars, netVars>>

\* Mutant of ProcessQueueEffect: the head is read but left in the queue.
ProcessQueuePeek ==
    IF upload_queue = <<>>
    THEN UNCHANGED <<upload_queue, exec_pending>>
    ELSE /\ upload_queue' = upload_queue
         /\ exec_pending' = Append(exec_pending, Head(upload_queue))

\* process_queue: get_nowait, then submit to the executor; Empty is swallowed.
ProcessQueueEffect ==
    IF upload_queue = <<>>
    THEN UNCHANGED <<upload_queue, exec_pending>>
    ELSE /\ upload_queue' = Tail(upload_queue)
         /\ exec_pending' = Append(exec_pending, Head(upload_queue))

\* _update_connectivity_status after a probe.
UpdateConnectivityStatus(ok) ==
    /\ connected' = ok
    /\ status_interface' = current_interface
    /\ age' = 0
    /\ ok_age' = IF ok THEN 0 ELSE ok_age

\* Mutant of CheckConnectivityEffect: the cached status is never re-verified.
CheckConnectivityCached(ok) ==
    UNCHANGED <<connected, status_interface, age, ok_age>>

\* Mutant of IsStale: a test exactly 30 s old is repeated.
IsStaleInclusive(a) == a >= StalenessSeconds

\* if time.time() - self.last_test_time > 30:
IsStale(a) == a > StalenessSeconds

\* check_connectivity: probe only when the last test is older than 30 s.
CheckConnectivityEffect(ok) ==
    IF IsStale(age)
    THEN UpdateConnectivityStatus(ok)
    ELSE UNCHANGED <<connected, status_interface, age, ok_age>>

\* The answer handed to a caller: the 'connected' flag of the status copy,
\* with the age of the last successful probe at that moment.
Report(op, c, okAge) == [op |-> op, connected |-> c, ok_age |-> okAge]

\* Mutant of IsConnectedGate: the queue is processed whatever the answer.
IsConnectedGateOpen(c) == TRUE

\* if self.network_manager and self.network_manager.is_connected():
IsConnectedGate(c) == c

\* One iteration of _upload_worker_loop: is_connected(), then process_queue.
UploadWorkerLoop(ok) ==
    /\ CheckConnectivityEffect(ok)
    /\ report' = Report("is_connected", connected', ok_age')
    /\ IF IsConnectedGate(connected')
       THEN ProcessQueueEffect
       ELSE UNCHANGED <<upload_queue, exec_pending>>
    /\ UNCHANGED <<camVars, retry_attempts, cleanup_after_upload, records,
                   retry_count, failed_uploads, upload_stats, task, pc,
                   replay_idx, replays, histVars, current_interface, estVars>>
    /\ UNCHANGED extVars

\* ---- _upload_item, one executor thread t, step by step
Finish(t) ==
    /\ task' = [task EXCEPT ![t] = NoTask]
    /\ pc' = [pc EXCEPT ![t] = "idle"]

Goto(t, label) ==
    /\ pc' = [pc EXCEPT ![t] = label]
    /\ UNCHANGED task

\* Mutant of FileExists: the check is skipped.
FileExistsAssumed(r) == TRUE

\* os.path.exists(image_path)
FileExists(r) == r \in files

\* An idle executor thread takes the next submitted item and runs the
\* os.path.exists check: a missing file ends the task ("skipping").
BeginUpload(t) ==
    /\ pc[t] = "idle"
    /\ exec_pending # <<>>
    /\ LET r == Head(exec_pending)
       IN  /\ exec_pending' = Tail(exec_pending)
           /\ IF FileExists(r)
              THEN /\ task' = [task EXCEPT ![t] = r]
                   /\ pc' = [pc EXCEPT ![t] = "gcs"]
                   /\ UNCHANGED discarded
              ELSE /\ discarded' = discarded \cup {r}
                   /\ UNCHANGED <<task, pc>>
    /\ UNCHANGED <<camVars, retry_attempts, cleanup_after_upload, records,
                   upload_queue, retry_count, failed_uploads, upload_stats,
                   replay_idx, replays, attempts, pf_count, replayed, uploaded,
                   failures, netVars>>
    /\ UNCHANGED extVars

\* The outcome of a remote call on the item of thread t: it cannot succeed
\* once the local file is gone (open / os.path.getsize raise); a failure with
\* the file in place is one the environment injects.
Outcome(t, ok) ==
    IF task[t] \in files
    THEN IF ok THEN UNCHANGED failures
         ELSE /\ failures < MaxFailures
              /\ failures' = failures + 1
    ELSE /\ ~ok
         /\ UNCHANGED failures

\* Mutants of AfterStorage and AfterApi: the result is not looked at.
AfterStorageUnchecked(ok) == "api"
AfterApiUnchecked(ok) == "stats_ok"

\* if gcs_url: the API is called; else the failure is handled.
AfterStorage(ok) == IF ok THEN "api" ELSE "fail"

\* if api_success: the success is recorded; else the failure is handled.
AfterApi(ok) == IF ok THEN "stats_ok" ELSE "fail"

\* GCP_AVAILABLE: the google-cloud libraries import on the device.
GcpAvailable == TRUE

\* The blob name _upload_to_gcs builds: the mock name without the libraries,
\* else "disaster-images/" + datetime.now().strftime('%Y/%m/%d/%H') + "/" +
\* basename; the basename is the file's own name.
BlobName(hour, f) ==
    IF GcpAvailable THEN <<"disaster-images", hour, f>> ELSE <<"mock", f>>

\* _upload_to_gcs as the uploader sees it: a URL, or None on any error (a
\* vanished file included).
UploadToGcsResult(t, ok) ==
    /\ pc[t] = "gcs"
    /\ Outcome(t, ok)
    /\ attempts' = [attempts EXCEPT ![task[t]] = @ + 1]
    /\ Goto(t, AfterStorage(ok))
    /\ UNCHANGED <<camVars, retry_attempts, cleanup_after_upload, records,
                   upload_queue, retry_count, failed_uploads, upload_stats,
                   exec_pending, replay_idx, replays, pf_count, replayed,
                   uploaded, discarded, netVars>>

\* _upload_to_gcs where the contents of the bucket are not followed.
UploadToGcs(t, ok) ==
    /\ UploadToGcsResult(t, ok)
    /\ UNCHANGED extVars

\* _upload_to_gcs with the bucket: a successful upload_from_file writes the
\* blob under the name built at that moment.
UploadToGcsBlob(t, ok) ==
    /\ UploadToGcsResult(t, ok)
    /\ blobs' = IF ok
                THEN [blobs EXCEPT
                        ![task[t]] = @ \cup {BlobName(now_hour, task[t])}]
                ELSE blobs
    /\ UNCHANGED <<gps_data, gpsVars, lifeVars, envVars, healthVars, now_hour,
                   shutVars, switchVars>>

\* _send_to_api: True on HTTP 200; any other status, a timeout or an error
\* (os.path.getsize of a vanished file included) is False.
SendToApi(t, ok) ==
    /\ pc[t] = "api"
    /\ Outcome(t, ok)
    /\ Goto(t, AfterApi(ok))
    /\ UNCHANGED <<camVars, retry_attempts, cleanup_after_upload, records,
                   upload_queue, retry_count, failed_uploads, upload_stats,
                   exec_pending, replay_idx, replays, attempts, pf_count,
                   replayed, uploaded, discarded, netVars>>
    /\ UNCHANGED extVars

\* Mutant of UpdateStats: the failure counter is bumped on every call.
UpdateStatsFallThrough(success) ==
    upload_stats' =
        [total_uploads |-> upload_stats.total_uploads + 1,
         successful_uploads |->
            upload_stats.successful_uploads + (IF success THEN 1 ELSE 0),
         failed_uploads |-> upload_stats.failed_uploads + 1]

\* Mutant of UpdateStats: the increment of the total is lost on a failure.
UpdateStatsLostTotal(success) ==
    upload_stats' =
        [total_uploads |-> upload_stats.total_uploads + (IF success THEN 1 ELSE 0),
         successful_uploads |->
            upload_stats.successful_uploads + (IF success THEN 1 ELSE 0),
         failed_uploads |->
            upload_stats.failed_uploads + (IF success THEN 0 ELSE 1)]

\* _update_stats under upload_lock.
UpdateStats(success) ==
    upload_stats' =
        [total_uploads |-> upload_stats.total_uploads + 1,
         successful_uploads |->
            upload_stats.successful_uploads + (IF success THEN 1 ELSE 0),
         failed_uploads |->
            upload_stats.failed_uploads + (IF success THEN 0 ELSE 1)]

\* Mutant of CleanupConfigured: the local file is always removed.
CleanupAlways == TRUE

\* if self.config.get('cleanup_after_upload', True):
CleanupConfigured == cleanup_after_upload

\* _update_stats(True, os.path.getsize(image_path)): getsize raises when the
\* file is gone, and the except branch runs _handle_upload_failure.
StatsOk(t) ==
    /\ pc[t] = "stats_ok"
    /\ IF task[t] \in files
       THEN /\ UpdateStats(TRUE)
            /\ uploaded' = uploaded \cup {task[t]}
            /\ IF CleanupConfigured
               THEN Goto(t, "unlink")
               ELSE Finish(t)
       ELSE /\ Goto(t, "fail")
            /\ UNCHANGED <<upload_stats, uploaded>>
    /\ UNCHANGED <<camVars, retry_attempts, cleanup_after_upload, records,
                   upload_queue, retry_count, failed_uploads, exec_pending,
                   replay_idx, replays, attempts, pf_count, replayed,
                   discarded, failures, netVars>>
    /\ UNCHANGED extVars

\* os.unlink(image_path): raises when the file is gone, and the except branch
\* runs _handle_upload_failure.
Unlink(t) ==
    /\ pc[t] = "unlink"
    /\ IF task[t] \in files
       THEN /\ files' = files \ {task[t]}
            /\ Finish(t)
       ELSE /\ Goto(t, "fail")
            /\ UNCHANGED files
    /\ UNCHANGED <<next_file, max_images, captures_ok, loop_pushed,
                   retry_attempts, cleanup_after_upload, records, upload_queue,
                   retry_count, failed_uploads, upload_stats, exec_pending,
                   replay_idx, replays, histVars, netVars>>
    /\ UNCHANGED extVars

\* Mutant of Requeue: the item is put back at the head.
RequeueAtHead(q, r) == <<r>> \o q

\* self.upload_queue.put(upload_item): the tail of the FIFO queue.
Requeue(q, r) == Append(q, r)

\* Mutants of ShouldRetry: the comparison off by one, either way.
ShouldRetryInclusive(count, limit) == count <= limit
ShouldRetryEarly(count, limit) == count + 1 < limit

\* if upload_item['retry_count'] < self.retry_attempts, after the increment
ShouldRetry(count, limit) == count < limit

\* _handle_upload_failure up to the put / the append.
HandleUploadFailure(t) ==
    /\ pc[t] = "fail"
    /\ LET r == task[t]
           n == retry_count[r] + 1
       IN  /\ retry_count' = [retry_count EXCEPT ![r] = n]
           /\ IF ShouldRetry(n, retry_attempts)
              THEN /\ upload_queue' = Requeue(upload_queue, r)
                   /\ Finish(t)
                   /\ UNCHANGED <<failed_uploads, pf_count>>
              ELSE /\ failed_uploads' = Append(failed_uploads, r)
                   /\ pf_count' = [pf_count EXCEPT ![r] = @ + 1]
                   /\ Goto(t, "stats_fail")
                   /\ UNCHANGED upload_queue
    /\ UNCHANGED <<camVars, retry_attempts, cleanup_after_upload, records,
                   upload_stats, exec_pending, replay_idx, replays, attempts,
                   replayed, uploaded, discarded, failures, netVars>>
    /\ UNCHANGED extVars

\* _handle_upload_failure, after the append: _update_stats(False, 0).
StatsFail(t) ==
    /\ pc[t] = "stats_fail"
    /\ UpdateStats(FALSE)
    /\ Finish(t)
    /\ UNCHANGED <<camVars, retry_attempts, cleanup_after_upload, records,
                   upload_queue, retry_count, failed_uploads, exec_pending,
                   replay_idx, replays, histVars, netVars>>
    /\ UNCHANGED extVars

\* ---- retry_failed_uploads, run by an operator thread
\* for upload_item in self.failed_uploads: one iteration of the list iterator
\* (replay_idx is the index it reads next); the call starts when the list is
\* not empty. At the end of the list the loop is left (replay_idx = -1).
RetryFailedUploads ==
    /\ IF replay_idx = 0
       THEN /\ replays < MaxReplays
            /\ failed_uploads # <<>>
            /\ replays' = replays + 1
       ELSE /\ replay_idx > 0
            /\ UNCHANGED replays
    /\ LET i == IF replay_idx = 0 THEN 1 ELSE replay_idx
       IN  IF i <= Len(failed_uploads)
           THEN LET r == failed_uploads[i]
                IN  /\ retry_count' = [retry_count EXCEPT ![r] = 0]
                    /\ upload_queue' = Append(upload_queue, r)
                    /\ replayed' = [replayed EXCEPT ![r] = @ + 1]
                    /\ replay_idx' = i + 1
           ELSE /\ replay_idx' = -1
                /\ UNCHANGED <<retry_count, upload_queue, replayed>>
    /\ UNCHANGED <<camVars, retry_attempts, cleanup_after_upload, records,
                   failed_uploads, upload_stats, exec_pending, task, pc,
                   attempts, pf_count, uploaded, discarded, failures,
                   netVars>>
    /\ UNCHANGED extVars

\* self.failed_uploads.clear()
RetryFailedClear ==
    /\ replay_idx = -1
    /\ failed_uploads' = <<>>
    /\ replay_idx' = 0
    /\ UNCHANGED <<camVars, retry_attempts, cleanup_after_upload, records,
                   upload_queue, retry_count, upload_stats, exec_pending, task,
                   pc, replays, histVars, netVars>>
    /\ UNCHANGED extVars

\* ------------------------------------------------------------------ time
Tick ==
    /\ age' = Min(age + TickSeconds, MaxAge)
    /\ ok_age' = Min(ok_age + TickSeconds, MaxAge)
    /\ UNCHANGED <<camVars, upVars, histVars, current_interface, connected,
                   status_interface, report, estVars>>
    /\ UNCHANGED extVars

\* ------------------------------------------------------- NetworkManager
\* One iteration of _network_monitor_loop: check_connectivity, and reconnect
\* (which waits for connection_lock) when the answer is not connected.
NetworkMonitorLoop(ok) ==
    /\ est_pc["monitor"] = "idle"
    /\ CheckConnectivityEffect(ok)
    /\ report' = Report("check_connectivity", connected', ok_age')
    /\ IF connected'
       THEN UNCHANGED <<est_pc, est_log, est_ret>>
       ELSE /\ est_pc' = [est_pc EXCEPT !["monitor"] = "waiting"]
            /\ est_log' = [est_log EXCEPT !["monitor"] = <<>>]
            /\ est_ret' = [est_ret EXCEPT !["monitor"] = "none"]
    /\ UNCHANGED <<camVars, upVars, histVars, current_interface,
                   connection_lock>>
    /\ UNCHANGED extVars

\* reconnect() / initialize() called by the operator thread.
Reconnect ==
    /\ est_pc["operator"] = "idle"
    /\ est_pc' = [est_pc EXCEPT !["operator"] = "waiting"]
    /\ est_log' = [est_log EXCEPT !["operator"] = <<>>]
    /\ est_ret' = [est_ret EXCEPT !["operator"] = "none"]
    /\ UNCHANGED <<camVars, upVars, histVars, current_interface, statusVars,
                   report, connection_lock>>
    /\ UNCHANGED extVars

\* Mutant of LockAvailable: the lock is never waited for.
LockIgnored == TRUE

\* with self.connection_lock: the lock can be taken when nobody holds it.
LockAvailable == connection_lock = "free"

\* _establish_connection enters its with block.
EstablishConnection(n) ==
    /\ est_pc[n] = "waiting"
    /\ LockAvailable
    /\ connection_lock' = n
    /\ est_pc' = [est_pc EXCEPT ![n] = "primary"]
    /\ UNCHANGED <<camVars, upVars, histVars, current_interface, statusVars,
                   report, est_log, est_ret>>
    /\ UNCHANGED extVars

\* Mutant of ConnectResult: a successful bring-up is enough.
ConnectResultNoProbe(bringup, probe) == bringup

\* _connect_4g / _connect_wifi / _connect_ethernet: False when the bring-up
\* ends before _test_connectivity is reached (no device, command failed,
\* timeout, exception), else what _test_connectivity returns.
ConnectResult(bringup, probe) == bringup /\ probe

\* _connect_interface: _test_connectivity runs only when the bring-up steps
\* reached it, and then updates the connectivity status.
ConnectInterfaceEffect(bringup, probe) ==
    IF bringup
    THEN UpdateConnectivityStatus(probe)
    ELSE UNCHANGED statusVars

\* _establish_connection, one _connect_interface call: the primary interface,
\* then the fallback; the first that connects becomes current_interface.
TryInterface(n, bringup, probe) ==
    /\ est_pc[n] \in {"primary", "fallback"}
    /\ LET iface == IF est_pc[n] = "primary" THEN PrimaryInterface
                    ELSE FallbackInterface
           res == ConnectResult(bringup, probe)
       IN  /\ ConnectInterfaceEffect(bringup, probe)
           /\ est_log' = [est_log EXCEPT ![n] = Append(@, iface)]
           /\ IF res
              THEN /\ current_interface' = iface
                   /\ connection_lock' = "free"
                   /\ est_pc' = [est_pc EXCEPT ![n] = "idle"]
                   /\ est_ret' = [est_ret EXCEPT ![n] = "true"]
              ELSE IF est_pc[n] = "primary"
              THEN /\ est_pc' = [est_pc EXCEPT ![n] = "fallback"]
                   /\ UNCHANGED <<current_interface, connection_lock, est_ret>>
              ELSE /\ connection_lock' = "free"
                   /\ est_pc' = [est_pc EXCEPT ![n] = "idle"]
                   /\ est_ret' = [est_ret EXCEPT ![n] = "false"]
                   /\ UNCHANGED current_interface
    /\ report' = report
    /\ UNCHANGED <<camVars, upVars, histVars>>
    /\ UNCHANGED extVars

\* get_status: a copy of the cached connectivity status, no re-verification.
GetStatus ==
    /\ report' = Report("get_status", connected, ok_age)
    /\ UNCHANGED <<camVars, upVars, histVars, current_interface, statusVars,
                   estVars>>
    /\ UNCHANGED extVars

\* switch_interface: disconnect the current interface, then _connect_interface
\* on the requested one (connection_lock is not taken).
SwitchInterfaceEffect(type, bringup, probe) ==
    /\ ConnectInterfaceEffect(bringup, probe)
    /\ current_interface' =
         IF ConnectResult(bringup, probe) THEN type ELSE current_interface
    /\ UNCHANGED <<camVars, upVars, histVars, report, estVars>>

\* switch_interface where the caller does not look at what it returns.
SwitchInterface(type, bringup, probe) ==
    /\ SwitchInterfaceEffect(type, bringup, probe)
    /\ UNCHANGED extVars

\* _disconnect_interface runs a command for '4g' and for 'wifi' only, and is
\* called only when current_interface is set.
Disconnects(iface) == iface \in {"4g", "wifi"}

\* switch_interface with its result: True when _connect_interface connected
\* the requested interface, else False.
SwitchInterfaceCall(type, bringup, probe) ==
    /\ SwitchInterfaceEffect(type, bringup, probe)
    /\ disconnected' =
         IF Disconnects(current_interface) THEN current_interface ELSE "none"
    /\ switch_ret' = IF ConnectResult(bringup, probe) THEN "true" ELSE "false"
    /\ UNCHANGED <<gps_data, gpsVars, lifeVars, envVars, healthVars, keyVars,
                   shutVars>>

\* ----------------------------------------------------------- GPSTracker
\* initialize: nothing starts when GPS is disabled; the mock loop starts when
\* pynmea2 is missing or opening the port raises; the reader thread starts
\* when the port is open; False is returned when the port is not open.
GpsInitialize(mode) ==
    /\ gps_mode = "new"
    /\ mode \in GpsModes \ {"new"}
    /\ gps_mode' = mode
    /\ UNCHANGED <<current_location, location_out, valid_out, gps_data, pipeVars, envVars, healthVars, keyVars, shutVars, switchVars, lifeVars>>

\* _update_location_from_gga: a sentence with latitude and longitude sets the
\* position, the satellites in use and the fix quality; without, nothing.
UpdateLocationFromGga(pos, sats, qual) ==
    /\ gps_mode = "serial"
    /\ current_location' = IF pos
                           THEN [position |-> TRUE, satellites |-> sats,
                                 fix_quality |-> qual]
                           ELSE current_location
    /\ UNCHANGED <<gps_mode, location_out, valid_out, gps_data, pipeVars, envVars, healthVars, keyVars, shutVars, switchVars, lifeVars>>

\* _update_location_from_rmc: sets latitude and longitude only.
UpdateLocationFromRmc(pos) ==
    /\ gps_mode = "serial"
    /\ current_location' = IF pos
                           THEN [current_location EXCEPT !.position = TRUE]
                           ELSE current_location
    /\ UNCHANGED <<gps_mode, location_out, valid_out, gps_data, pipeVars, envVars, healthVars, keyVars, shutVars, switchVars, lifeVars>>

\* _update_satellites_from_gsv: sets the satellites when the field is given.
UpdateSatellitesFromGsv(given, sats) ==
    /\ gps_mode = "serial"
    /\ current_location' = IF given
                           THEN [current_location EXCEPT !.satellites = sats]
                           ELSE current_location
    /\ UNCHANGED <<gps_mode, location_out, valid_out, gps_data, pipeVars, envVars, healthVars, keyVars, shutVars, switchVars, lifeVars>>

\* One round of mock_gps_loop: a position, randint(4, 12) satellites and
\* fix_quality 1.
MockGps(sats) ==
    /\ gps_mode = "mock"
    /\ sats \in MinSatellites..MaxSatellites
    /\ current_location' = [position |-> TRUE, satellites |-> sats,
                            fix_quality |-> 1]
    /\ UNCHANGED <<gps_mode, location_out, valid_out, gps_data, pipeVars, envVars, healthVars, keyVars, shutVars, switchVars, lifeVars>>

\* get_current_location, under gps_lock.
GetCurrentLocation ==
    /\ location_out' = GetCurrentLocationResult(current_location)
    /\ UNCHANGED <<current_location, gps_mode, valid_out, gps_data, pipeVars, envVars, healthVars, keyVars, shutVars, switchVars, lifeVars>>

\* is_valid_fix, under gps_lock.
IsValidFix ==
    /\ valid_out' = IsValidFixResult(current_location)
    /\ UNCHANGED <<current_location, gps_mode, location_out, gps_data, pipeVars, envVars, healthVars, keyVars, shutVars, switchVars, lifeVars>>

\* -------------------------------------------------- DisasterCameraSystem
\* start() enters initialize_components.
Start ==
    /\ life = "created"
    /\ stop_stack = <<>>
    /\ life' = "init"
    /\ UNCHANGED <<running, threads_started, component, init_log, init_result,
                   stop_stack, last_stop, stops, gps_data, gpsVars, pipeVars, envVars, healthVars, keyVars, shutVars, switchVars,
                   loops>>

\* The next component of initialize_components: construct it and call its
\* initialize. An exception leaves the attribute None and returns False; a
\* False result returns False for the camera, the network manager and the
\* uploader only.
InitializeComponent(outcome, mode) ==
    /\ life = "init"
    /\ stop_stack = <<>>
    /\ LET c == Components[Len(init_log) + 1]
       IN  /\ outcome \in InitOutcomes(c)
           /\ IF c = "gps"
              THEN /\ mode \in GpsModes \ {"new"}
                   /\ outcome = GpsInitializeResult(mode)
                   /\ gps_mode' = mode
              ELSE /\ mode = "new"
                   /\ UNCHANGED gps_mode
           /\ init_log' = Append(init_log, c)
           /\ init_result' = [init_result EXCEPT ![c] = outcome]
           /\ component' = [component EXCEPT ![c] =
                               CASE outcome = "ok" -> "ready"
                                 [] outcome = "false" -> "failed"
                                 [] OTHER -> @]
           /\ life' = IF outcome = "raise" \/ (outcome = "false" /\ AbortsOnFalse(c))
                      THEN "aborted"
                      ELSE IF Len(init_log) + 1 = Len(Components)
                           THEN "initialized" ELSE "init"
    /\ UNCHANGED <<running, threads_started, stop_stack, last_stop, stops,
                   current_location, location_out, valid_out, gps_data, pipeVars, envVars, healthVars, keyVars, shutVars, switchVars,
                   loops>>

\* start(): self.running = True after initialize_components returned True.
SetRunning ==
    /\ life = "initialized"
    /\ stop_stack = <<>>
    /\ running' = TRUE
    /\ life' = "starting"
    /\ UNCHANGED <<threads_started, component, init_log, init_result,
                   stop_stack, last_stop, stops, gps_data, gpsVars, pipeVars, envVars, healthVars, keyVars, shutVars, switchVars,
                   loops>>

\* _start_background_threads, after which start() is in _main_capture_loop.
StartBackgroundThreads ==
    /\ life = "starting"
    /\ stop_stack = <<>>
    /\ threads_started' = TRUE
    /\ life' = "running"
    /\ loops' = [l \in LoopNames |-> "test"]
    /\ UNCHANGED <<running, component, init_log, init_result,
                   stop_stack, last_stop, stops, gps_data, gpsVars, pipeVars, envVars, healthVars, keyVars, shutVars, switchVars>>

\* 'while self.running' of _main_capture_loop fails and start() returns.
MainLoopExit ==
    /\ life = "running"
    /\ stop_stack = <<>>
    /\ loops["capture"] = "test"
    /\ ~running
    /\ life' = "returned"
    /\ loops' = [loops EXCEPT !["capture"] = "exited"]
    /\ UNCHANGED <<running, threads_started, component, init_log, init_result,
                   stop_stack, last_stop, stops, gps_data, gpsVars,
                   pipeVars, envVars, healthVars, keyVars, shutVars, switchVars>>

\* The main thread runs the capture loop; a signal handler runs on top of it.
ThreadFree(l) == l = "capture" => stop_stack = <<>>

\* 'while self.running:' found true: the loop enters its next iteration.
LoopEnter(l) ==
    /\ loops[l] = "test"
    /\ ThreadFree(l)
    /\ running
    /\ loops' = [loops EXCEPT ![l] = "body"]
    /\ UNCHANGED <<life, running, threads_started, component, init_log,
                   init_result, stop_stack, last_stop, stops,
                   gps_data, gpsVars, pipeVars, envVars, healthVars, keyVars, shutVars, switchVars>>

\* One iteration of a loop body: it ends normally, back at the loop test, or
\* with an exception, in the 'except Exception' clause of the loop.
LoopBody(l, raised) ==
    /\ loops[l] = "body"
    /\ ThreadFree(l)
    /\ loops' = [loops EXCEPT ![l] = IF raised THEN "except" ELSE "test"]
    /\ UNCHANGED <<life, running, threads_started, component, init_log,
                   init_result, stop_stack, last_stop, stops,
                   gps_data, gpsVars, pipeVars, envVars, healthVars, keyVars, shutVars, switchVars>>

\* Mutant of AfterExcept: the exception ends the loop.
AfterExceptUncaught == "exited"

\* The except clause logs the error and sleeps, inside the while loop.
AfterExcept == "test"

\* The except clause of a loop: the thread is back at the loop test.
LoopExcept(l) ==
    /\ loops[l] = "except"
    /\ ThreadFree(l)
    /\ loops' = [loops EXCEPT ![l] = AfterExcept]
    /\ UNCHANGED <<life, running, threads_started, component, init_log,
                   init_result, stop_stack, last_stop, stops,
                   gps_data, gpsVars, pipeVars, envVars, healthVars, keyVars, shutVars, switchVars>>

\* 'while self.running:' found false in a background thread: it ends.
LoopExit(l) ==
    /\ l # "capture"
    /\ loops[l] = "test"
    /\ ~running
    /\ loops' = [loops EXCEPT ![l] = "exited"]
    /\ UNCHANGED <<life, running, threads_started, component, init_log,
                   init_result, stop_stack, last_stop, stops,
                   gps_data, gpsVars, pipeVars, envVars, healthVars, keyVars, shutVars, switchVars>>

\* _signal_handler -> stop(), run by the main thread on top of whatever it
\* was doing: self.running = False and the bounded joins.
SignalHandler ==
    /\ stops < MaxStops
    /\ stops' = stops + 1
    /\ running' = FALSE
    /\ stop_stack' = Append(stop_stack, [idx |-> 0, log |-> <<>>])
    /\ UNCHANGED <<life, threads_started, component, init_log, init_result,
                   last_stop, gps_data, gpsVars, pipeVars, envVars, healthVars, keyVars, shutVars, switchVars,
                   loops>>

\* stop(): the next 'if self.X: self.X.cleanup()' of the innermost call.
StopCleanup ==
    /\ stop_stack # <<>>
    /\ LET n == Len(stop_stack)
           fr == stop_stack[n]
       IN  /\ fr.idx < Len(CleanupOrder)
           /\ LET c == CleanupOrder[fr.idx + 1]
              IN  IF component[c] # "none"
                  THEN /\ component' = [component EXCEPT ![c] = "cleaned"]
                       /\ stop_stack' = [stop_stack EXCEPT ![n] =
                                 [idx |-> fr.idx + 1, log |-> Append(fr.log, c)]]
                  ELSE /\ UNCHANGED component
                       /\ stop_stack' = [stop_stack EXCEPT ![n] =
                                 [idx |-> fr.idx + 1, log |-> fr.log]]
    /\ UNCHANGED <<life, running, threads_started, init_log, init_result,
                   last_stop, stops, gps_data, gpsVars, pipeVars, envVars, healthVars, keyVars, shutVars, switchVars,
                   loops>>

\* stop() returns to what the main thread was doing.
StopReturn ==
    /\ stop_stack # <<>>
    /\ LET n == Len(stop_stack)
       IN  /\ stop_stack[n].idx = Len(CleanupOrder)
           /\ last_stop' = stop_stack[n].log
           /\ stop_stack' = SubSeq(stop_stack, 1, n - 1)
    /\ UNCHANGED <<life, running, threads_started, component, init_log,
                   init_result, stops, gps_data, gpsVars, pipeVars, envVars, healthVars, keyVars, shutVars, switchVars,
                   loops>>

\* ------------------------------------------------------------ the link
\* The link changes state between two cycles of the loops.
Flap ==
    /\ ~link_stable
    /\ link_up' = ~link_up
    /\ UNCHANGED <<link_stable, gps_data, gpsVars, lifeVars, pipeVars,
                   healthVars, keyVars, shutVars, switchVars>>

\* The link comes up and stays up.
Stabilize ==
    /\ ~link_stable
    /\ link_up' = TRUE
    /\ link_stable' = TRUE
    /\ UNCHANGED <<gps_data, gpsVars, lifeVars, pipeVars,
                   healthVars, keyVars, shutVars, switchVars>>

\* -------------------------------------------------------- specification
Next ==
    \/ \E ok \in BOOLEAN : MainCaptureLoop(ok)
    \/ \E f \in FileIds : AddToQueue(f)
    \/ \E ok \in BOOLEAN : UploadWorkerLoop(ok)
    \/ \E t \in Workers : BeginUpload(t)
    \/ \E t \in Workers, ok \in BOOLEAN : UploadToGcs(t, ok)
    \/ \E t \in Workers, ok \in BOOLEAN : SendToApi(t, ok)
    \/ \E t \in Workers : StatsOk(t)
    \/ \E t \in Workers : Unlink(t)
    \/ \E t \in Workers : HandleUploadFailure(t)
    \/ \E t \in Workers : StatsFail(t)
    \/ RetryFailedUploads
    \/ RetryFailedClear

Spec == Init /\ [][Next]_vars

\* The connectivity manager and its callers, with the clock.
NextNet ==
    \/ \E ok \in BOOLEAN : NetworkMonitorLoop(ok)
    \/ \E ok \in BOOLEAN : UploadWorkerLoop(ok)
    \/ Reconnect
    \/ \E n \in NetThreads : EstablishConnection(n)
    \/ \E n \in NetThreads, bringup \in BOOLEAN, probe \in BOOLEAN :
            TryInterface(n, bringup, probe)
    \/ GetStatus
    \/ \E type \in InterfaceTypes, bringup \in BOOLEAN, probe \in BOOLEAN :
            SwitchInterface(type, bringup, probe)
    \/ Tick

\* The uploader is left as constructed, under one configuration.
InitNet ==
    /\ Init
    /\ retry_attempts = 2
    /\ max_images = 2
    /\ cleanup_after_upload

SpecNet == InitNet /\ [][NextNet]_vars

\* The pipeline left running: the loops of DisasterCameraSystem keep
\* iterating, the executor threads keep running what was submitted, the
\* clock advances, and the network answers when it is probed.
ExecutorStep(t) ==
    \/ BeginUpload(t)
    \/ \E ok \in BOOLEAN : UploadToGcs(t, ok)
    \/ \E ok \in BOOLEAN : SendToApi(t, ok)
    \/ StatsOk(t)
    \/ Unlink(t)
    \/ HandleUploadFailure(t)
    \/ StatsFail(t)

\* The executor threads when every remote call succeeds exactly when the
\* link is up at that moment.
LinkExecutorStep(t) ==
    \/ BeginUpload(t)
    \/ UploadToGcs(t, link_up)
    \/ SendToApi(t, link_up)
    \/ StatsOk(t)
    \/ Unlink(t)
    \/ HandleUploadFailure(t)
    \/ StatsFail(t)

\* The pipeline on a flapping link: probes and remote calls see the link as
\* it is when they run.
NextLink ==
    \/ \E ok \in BOOLEAN : MainCaptureLoop(ok)
    \/ \E f \in FileIds : AddToQueue(f)
    \/ UploadWorkerLoop(link_up)
    \/ \E t \in Workers : LinkExecutorStep(t)
    \/ Tick
    \/ Flap
    \/ Stabilize

\* retry_attempts at the largest configured value, no eviction, cleanup on.
InitLink ==
    /\ Init
    /\ retry_attempts = 2
    /\ max_images = 2
    /\ cleanup_after_upload

FairnessLink ==
    /\ WF_vars(Tick)
    /\ WF_vars(UploadWorkerLoop(link_up))
    /\ WF_vars(Stabilize)
    /\ \A t \in Workers : WF_vars(LinkExecutorStep(t))

SpecLink == InitLink /\ [][NextLink]_vars /\ FairnessLink

NextFair ==
    \/ \E ok \in BOOLEAN : MainCaptureLoop(ok)
    \/ \E f \in FileIds : AddToQueue(f)
    \/ \E ok \in BOOLEAN : UploadWorkerLoop(ok)
    \/ \E t \in Workers : ExecutorStep(t)
    \/ Tick

Fairness ==
    /\ WF_vars(Tick)
    /\ WF_vars(\E ok \in BOOLEAN : MainCaptureLoop(ok))
    /\ SF_vars(UploadWorkerLoop(TRUE))
    /\ \A t \in Workers : WF_vars(ExecutorStep(t))

FairSpec == Init /\ [][NextFair]_vars /\ Fairness

\* ================================================================ claims
\* f[1] + ... + f[n]
RECURSIVE SumTo(_, _)
SumTo(f, n) == IF n = 0 THEN 0 ELSE f[n] + SumTo(f, n - 1)

Quarantined(r) == InSeq(failed_uploads, r)
AllIdle == \A t \in Workers : pc[t] = "idle"

\* The GPS tracker with its reader thread and the callers that read the
\* location and queue images with it.
NextGps ==
    \/ \E mode \in GpsModes : GpsInitialize(mode)
    \/ \E pos \in BOOLEAN, sats \in 0..MaxSatellites, qual \in 0..MaxFixQuality :
            UpdateLocationFromGga(pos, sats, qual)
    \/ \E pos \in BOOLEAN : UpdateLocationFromRmc(pos)
    \/ \E given \in BOOLEAN, sats \in 0..MaxSatellites :
            UpdateSatellitesFromGsv(given, sats)
    \/ \E sats \in MinSatellites..MaxSatellites : MockGps(sats)
    \/ GetCurrentLocation
    \/ IsValidFix
    \/ \E ok \in BOOLEAN : MainCaptureLoop(ok)
    \/ \E f \in FileIds : AddToQueue(f)

\* The main thread from construction to the return of start(), with
\* shutdown signals.
NextLife ==
    \/ Start
    \/ \E outcome \in {"ok", "false", "raise"}, mode \in GpsModes :
            InitializeComponent(outcome, mode)
    \/ SetRunning
    \/ StartBackgroundThreads
    \/ MainLoopExit
    \/ \E l \in LoopNames : LoopEnter(l)
    \/ \E l \in LoopNames, raised \in BOOLEAN : LoopBody(l, raised)
    \/ \E l \in LoopNames : LoopExcept(l)
    \/ \E l \in LoopNames : LoopExit(l)
    \/ SignalHandler
    \/ StopCleanup
    \/ StopReturn

InitGps ==
    /\ Init
    /\ retry_attempts = 2
    /\ max_images = 2
    /\ cleanup_after_upload

SpecGps == InitGps /\ [][NextGps]_vars

\* The same configuration for the life cycle.
InitLife == InitGps

SpecLife == InitLife /\ [][NextLife]_vars

\* Every thread that can take a step eventually does; signals are not forced.
FairnessLife ==
    /\ WF_vars(Start)
    /\ WF_vars(\E outcome \in {"ok", "false", "raise"}, mode \in GpsModes :
                  InitializeComponent(outcome, mode))
    /\ WF_vars(SetRunning)
    /\ WF_vars(StartBackgroundThreads)
    /\ WF_vars(MainLoopExit)
    /\ WF_vars(StopCleanup)
    /\ WF_vars(StopReturn)
    /\ \A l \in LoopNames :
          /\ WF_vars(LoopEnter(l))
          /\ WF_vars(\E raised \in BOOLEAN : LoopBody(l, raised))
          /\ WF_vars(LoopExcept(l))
          /\ WF_vars(LoopExit(l))

FairSpecLife == SpecLife /\ FairnessLife

\* C1 (as claimed): every record produced by a successful capture eventually
\* reaches a terminal state, Uploaded or PermanentlyFailed, and never both,
\* when the loops and the executor threads are scheduled fairly and the
\* injected failures are finitely many.
C1_CapturedEventuallyTerminal ==
    \A f \in FileIds :
        /\ (f < next_file) ~> (f \in uploaded \/ pf_count[f] > 0)
        /\ [](~(f \in uploaded /\ pf_count[f] > 0))

\* C2 (as claimed): no step deletes the local file of a record that is in
\* state Uploading (dequeued, its _upload_item run not yet decided).
C2_NoDeleteWhileUploading ==
    [][\A r \in FileIds :
          (RecState(r) = "Uploading" /\ r \in files) => r \in files']_vars

\* C3 (as claimed): the eviction run by a capture never deletes the file of a
\* record that is Queued or Uploading.
C3_EvictionSparesPending ==
    [][next_file' # next_file =>
          \A r \in files \ files' : RecState(r) \notin {"Queued", "Uploading"}]_vars

\* C4 (as claimed): after k successful captures of the capture loop, the loop
\* has pushed k records into the upload queue.
C4_EveryCaptureEnqueued == loop_pushed = captures_ok

\* C5 (as claimed): the retry_count of every record is at most retry_attempts,
\* for every configured value, 0 included.
C5_RetryCountAtMostMax ==
    \A r \in records : retry_count[r] <= retry_attempts

\* C5 (amended): retry_count never exceeds max(retry_attempts, 1): the counter
\* is incremented before it is compared, so with retry_attempts = 0 it is 1.
C5_RetryCountAtMostMaxOrOne ==
    \A r \in records : retry_count[r] <= Max(retry_attempts, 1)

\* C5 witness: a record quarantined with its counter at the configured limit.
C5_Witness ==
    \E r \in records :
        /\ retry_attempts >= 1
        /\ Quarantined(r)
        /\ retry_count[r] = retry_attempts

\* C6 (as claimed): a record becomes PermanentlyFailed at most once, and the
\* failed counter never exceeds the number of distinct records, replay included.
C6_FailedAtMostOncePerRecord ==
    /\ \A r \in records : pf_count[r] <= 1
    /\ upload_stats.failed_uploads <= Cardinality(records)

\* C6 (amended): a record becomes PermanentlyFailed at most once after its
\* enqueue and at most once more after each replay of it; the failed counter
\* is incremented exactly once per such transition (it lags only while a task
\* is between the append and _update_stats).
C6_FailedOncePerLife ==
    /\ \A r \in records : pf_count[r] <= 1 + replayed[r]
    /\ \A r \in FileIds \ records : pf_count[r] = 0
    /\ upload_stats.failed_uploads
         + Cardinality({t \in Workers : pc[t] = "stats_fail"})
       = SumTo(pf_count, MaxFiles)
    /\ upload_stats.failed_uploads
       <= Cardinality(records) + SumTo(replayed, MaxFiles)

\* C6 witness: one record, replayed, quarantined and counted a second time.
C6_Witness ==
    \E r \in records :
        /\ replayed[r] = 1
        /\ pf_count[r] = 2
        /\ upload_stats.failed_uploads = 2
        /\ AllIdle

\* C7 (as claimed): with retry_attempts = 2 a record that only ever fails is
\* PermanentlyFailed after exactly 3 upload attempts.
C7_ThreeAttempts ==
    \A r \in records :
        (retry_attempts = 2 /\ replayed[r] = 0 /\ Quarantined(r))
            => attempts[r] = 3

\* C7 (amended): with retry_attempts = 2 a record that only ever fails goes
\* Queued, Uploading, Queued(retry 1), Uploading, PermanentlyFailed after exactly
\* 2 upload attempts, and it is then counted once in the failed counter.
C7_TwoAttempts ==
    \A r \in records :
        (retry_attempts = 2 /\ replayed[r] = 0)
            => /\ (RecState(r) = "Queued" /\ r \notin uploaded)
                    => attempts[r] = retry_count[r] /\ retry_count[r] <= 1
               /\ Quarantined(r)
                    => /\ attempts[r] = 2
                       /\ retry_count[r] = 2
                       /\ pf_count[r] = 1
                       /\ (AllIdle /\ records = {r})
                            => upload_stats.failed_uploads = 1

\* C7 witness: the scenario has run to its end.
C7_Witness ==
    \E r \in records :
        /\ retry_attempts = 2
        /\ records = {r}
        /\ r \in files
        /\ Quarantined(r)
        /\ attempts[r] = 2
        /\ AllIdle
        /\ upload_stats.failed_uploads = 1

\* C8: a record is held at most once: the number of its occurrences in the
\* upload queue and in the executor's work queue, plus the number of executor
\* threads running _upload_item on it, is at most 1.
C8_SingleHolder ==
    \A r \in FileIds :
        Count(upload_queue, r) + Count(exec_pending, r)
            + Cardinality({t \in Workers : HeldBy(t, r)}) <= 1

\* C8 witness: both executor threads are running an upload while a third
\* hand-over (a replayed or retried record) has happened.
C8_Witness ==
    /\ \A t \in Workers : pc[t] \in HoldingPcs
    /\ task[1] # task[2]
    /\ \E r \in records : retry_count[r] > 0

C10_OneAtATime ==
    /\ \A n \in NetThreads :
            est_pc[n] \in {"primary", "fallback"} <=> connection_lock = n
    /\ \A n \in NetThreads :
            /\ est_pc[n] = "primary" => est_log[n] = <<>>
            /\ est_pc[n] = "fallback" => est_log[n] = <<PrimaryInterface>>
            /\ est_log[n] \in {<<>>, <<PrimaryInterface>>,
                                <<PrimaryInterface, FallbackInterface>>}
            /\ est_ret[n] = "false"
                    => est_log[n] = <<PrimaryInterface, FallbackInterface>>

\* What holds of every step of _establish_connection: the fallback is entered
\* from a failed primary attempt, and a call returns true in a step whose
\* probe succeeded, with current_interface set to the interface attempted.
C10_Steps ==
    \A n \in NetThreads :
        /\ (est_pc[n] # "fallback" /\ est_pc'[n] = "fallback")
                => /\ est_pc[n] = "primary"
                   /\ (UNCHANGED statusVars \/ ~connected')
                   /\ UNCHANGED current_interface
        /\ (est_ret[n] # "true" /\ est_ret'[n] = "true")
                => /\ connection_lock = n
                   /\ connected' /\ age' = 0 /\ ok_age' = 0
                   /\ est_log'[n] # <<>>
                   /\ current_interface' = est_log'[n][Len(est_log'[n])]

\* C10: _establish_connection attempts the primary interface before the
\* fallback, never two attempts at once (callers on several threads
\* included), the fallback only after the primary failed; it returns true
\* only if the probe run after the bring-up succeeded, and current_interface
\* is then the interface whose probe succeeded.
C10_PrimaryThenFallback == []C10_OneAtATime /\ [][C10_Steps]_vars

\* C10 witness: the monitor's reconnect returned true on the fallback after
\* its primary attempt failed, while the operator's call waits for the lock.
C10_Witness ==
    /\ est_ret["monitor"] = "true"
    /\ est_log["monitor"] = <<PrimaryInterface, FallbackInterface>>
    /\ current_interface = FallbackInterface
    /\ est_pc["operator"] = "waiting"

\* C11 (as claimed): when _establish_connection has tried the primary and the
\* fallback interface and returns False, whatever made the attempts fail, the
\* connectivity status says connected = false.
C11_ExhaustedMeansDisconnected ==
    [][\A n \in NetThreads :
          (est_ret[n] # "false" /\ est_ret'[n] = "false") => ~connected']_vars

\* C12: an iteration of the upload worker loop in which is_connected answers
\* False makes no upload and no API call and leaves every record as it is: the
\* queue, the executor, the running tasks, the retry counts, the attempt
\* counts, the quarantine list, the counters and the files are unchanged.
C12_DisconnectedCycleIdle ==
    [][((\E ok \in BOOLEAN : UploadWorkerLoop(ok)) /\ ~connected')
          => UNCHANGED <<upload_queue, exec_pending, task, pc, records,
                         retry_count, attempts, failed_uploads, upload_stats,
                         files, failures>>]_vars

\* C12 witness: is_connected has just answered False, from a probe that
\* failed, while a record that already failed once waits in the queue.
C12_Witness ==
    /\ report.op = "is_connected"
    /\ ~report.connected
    /\ ~connected
    /\ age = 0
    /\ \E r \in records :
          /\ InSeq(upload_queue, r)
          /\ retry_count[r] = 1
          /\ attempts[r] = 1

\* C13: within one _upload_item run the API is called only after the storage
\* upload of that run returned a URL (the file was there, no failure), the
\* success is recorded only after the API call of that run returned True, and
\* successful_uploads grows only in the step that records that success.
C13_ApiAfterStorageSuccess ==
    [][/\ \A t \in Workers :
            /\ (pc[t] # "api" /\ pc'[t] = "api")
                  => /\ pc[t] = "gcs"
                     /\ task'[t] = task[t]
                     /\ task[t] \in files
                     /\ failures' = failures
                     /\ attempts'[task[t]] = attempts[task[t]] + 1
            /\ (pc[t] # "stats_ok" /\ pc'[t] = "stats_ok")
                  => /\ pc[t] = "api"
                     /\ task'[t] = task[t]
                     /\ task[t] \in files
                     /\ failures' = failures
                     /\ attempts' = attempts
                     /\ uploaded' = uploaded
       /\ (upload_stats'.successful_uploads # upload_stats.successful_uploads
             \/ uploaded' # uploaded)
            => \E t \in Workers :
                  /\ pc[t] = "stats_ok"
                  /\ pc'[t] # "stats_ok"
                  /\ uploaded' = uploaded \cup {task[t]}
                  /\ upload_stats'.successful_uploads
                        = upload_stats.successful_uploads + 1]_vars

\* C13 witness: a record counted as uploaded on its second attempt, after
\* a first attempt that failed.
C13_Witness ==
    \E r \in uploaded :
        /\ attempts[r] = 2
        /\ retry_count[r] = 1
        /\ upload_stats.successful_uploads = 1
        /\ AllIdle

\* C14: every failed attempt, whatever failed, ends in _handle_upload_failure,
\* which adds exactly 1 to the item's retry_count and then either puts the item
\* at the tail of the queue (retry_count < retry_attempts) or appends it to
\* failed_uploads and counts one failed upload, never both; no other step of
\* the pipeline changes a retry_count.
C14_OneRetryPath ==
    [][/\ \A t \in Workers :
            /\ (pc[t] \in {"gcs", "api"} /\ pc'[t] # pc[t]
                    /\ (failures' # failures \/ task[t] \notin files))
                  => pc'[t] = "fail" /\ task'[t] = task[t]
            /\ (pc[t] = "fail" /\ pc'[t] # "fail")
                  => LET r == task[t]
                         n == retry_count[r] + 1
                     IN  /\ retry_count' = [retry_count EXCEPT ![r] = n]
                         /\ IF n < retry_attempts
                            THEN /\ upload_queue' = Append(upload_queue, r)
                                 /\ failed_uploads' = failed_uploads
                                 /\ upload_stats' = upload_stats
                                 /\ pc'[t] = "idle"
                            ELSE /\ failed_uploads' = Append(failed_uploads, r)
                                 /\ upload_queue' = upload_queue
                                 /\ pc'[t] = "stats_fail"
            /\ (pc[t] = "stats_fail" /\ pc'[t] # "stats_fail")
                  => /\ upload_stats'.failed_uploads
                            = upload_stats.failed_uploads + 1
                     /\ upload_stats'.successful_uploads
                            = upload_stats.successful_uploads
                     /\ UNCHANGED <<retry_count, upload_queue, failed_uploads>>
       /\ retry_count' # retry_count
            => \E t \in Workers : pc[t] = "fail" /\ pc'[t] # "fail"]_vars

\* C14 witness: an item that failed once waits at the tail of the queue behind
\* an item that was added while it was being uploaded.
C14_Witness ==
    /\ Len(upload_queue) = 2
    /\ retry_count[upload_queue[1]] = 0
    /\ retry_count[upload_queue[2]] = 1
    /\ attempts[upload_queue[2]] = 1

\* C15: the step that records a success adds the item to the uploaded ones
\* and updates the counters once (total and successful by 1), without
\* touching the file; the uploader removes a local file only when
\* cleanup_after_upload is set, and then it is the file of the item just
\* recorded; with cleanup_after_upload unset it never removes a file, with it
\* set the file is gone when the run is over.
C15_State ==
    /\ upload_stats.successful_uploads = Cardinality(uploaded)
    /\ ~cleanup_after_upload => \A t \in Workers : pc[t] # "unlink"

C15_Steps ==
    /\ uploaded' # uploaded
         => \E t \in Workers :
               /\ pc[t] = "stats_ok"
               /\ task[t] \notin uploaded
               /\ uploaded' = uploaded \cup {task[t]}
               /\ upload_stats' =
                    [upload_stats EXCEPT !.total_uploads = @ + 1,
                                         !.successful_uploads = @ + 1]
               /\ files' = files
               /\ pc'[t] = IF cleanup_after_upload THEN "unlink" ELSE "idle"
    /\ (files' # files /\ next_file' = next_file)
         => /\ cleanup_after_upload
            /\ \E t \in Workers :
                  /\ pc[t] = "unlink" /\ pc'[t] = "idle"
                  /\ task[t] \in uploaded
                  /\ files' = files \ {task[t]}
    /\ \A t \in Workers :
          (pc[t] = "unlink" /\ pc'[t] # "unlink") => task[t] \notin files'

C16_StaleDropped ==
    [][/\ (exec_pending # <<>> /\ exec_pending' = Tail(exec_pending)
              /\ Head(exec_pending) \notin files)
            => /\ discarded' = discarded \cup {Head(exec_pending)}
               /\ UNCHANGED <<task, pc, attempts, retry_count, upload_queue,
                              failed_uploads, upload_stats, uploaded, failures,
                              files>>
       /\ \A t \in Workers :
             (pc[t] = "idle" /\ pc'[t] # "idle")
                => pc'[t] = "gcs" /\ task'[t] \in files]_vars

\* C16 witness: a record dropped as stale on its first dequeue, nothing
\* counted for it.
C16_Witness ==
    \E r \in discarded :
        /\ r \notin files
        /\ RecState(r) = "Discarded"
        /\ retry_count[r] = 0
        /\ attempts[r] = 0
        /\ upload_stats.total_uploads = 0

\* C17: a fix with fewer than min_satellites satellites is never valid for a
\* consumer: get_current_location answers with the empty dict and
\* is_valid_fix with False while the count is below the minimum, and neither
\* a returned location nor the gps_data of a queued record has fewer.
C17_State ==
    /\ location_out # EmptyDict => location_out.satellites >= MinSatellites
    /\ \A r \in records :
          gps_data[r] # EmptyDict => gps_data[r].satellites >= MinSatellites

C17_Steps ==
    /\ (GetCurrentLocation /\ current_location.satellites < MinSatellites)
          => location_out' = EmptyDict
    /\ (IsValidFix /\ current_location.satellites < MinSatellites)
          => ~valid_out'

C17_FewSatellitesNeverValid == []C17_State /\ [][C17_Steps]_vars

\* C17 witness: a record was queued with a sufficient fix, and since then
\* get_current_location has answered {}; the receiver has a position with
\* fix quality but one satellite too few.
C17_Witness ==
    /\ current_location.position
    /\ current_location.fix_quality > 0
    /\ current_location.satellites = MinSatellites - 1
    /\ location_out = EmptyDict
    /\ \E r \in records : gps_data[r] # EmptyDict

\* C18: a location is handed out only with satellites >= min_satellites and
\* fix_quality > 0, and get_current_location returns a location exactly
\* when is_valid_fix is true.
C18_HandedOutOnlyIfValid ==
    /\ location_out # EmptyDict =>
          /\ location_out.satellites >= MinSatellites
          /\ location_out.fix_quality > 0
    /\ \A r \in records :
          gps_data[r] # EmptyDict =>
             /\ gps_data[r].satellites >= MinSatellites
             /\ gps_data[r].fix_quality > 0
    /\ (GetCurrentLocationResult(current_location) # EmptyDict)
          <=> IsValidFixResult(current_location)

\* C19: components are brought up in the order camera, network manager,
\* uploader, GPS, monitor; when one of the first three fails, start() is
\* over: it was the last one tried, nothing after it exists, self.running
\* was never set and no background thread was started; the system is only
\* set running after all five were tried with the first three good; and
\* start() ends early only on a failure of one of the first three, so never
\* on a GPS failure alone.
C19_State ==
    LET order == <<"camera", "network", "uploader", "gps", "monitor">>
        mandatory == {"camera", "network", "uploader"}
    IN  /\ Len(init_log) <= 5
        /\ \A i \in 1..Len(init_log) : init_log[i] = order[i]
        /\ \A c \in mandatory :
              init_result[c] \in {"false", "raise"} =>
                 /\ life = "aborted"
                 /\ init_log[Len(init_log)] = c
                 /\ \A i \in (Len(init_log) + 1)..5 :
                       /\ init_result[order[i]] = "none"
                       /\ component[order[i]] = "none"
                 /\ ~running
                 /\ ~threads_started
        /\ life = "aborted" =>
              \E c \in mandatory : init_result[c] \in {"false", "raise"}
        /\ (running \/ threads_started
              \/ life \in {"initialized", "starting", "running", "returned"}) =>
              /\ init_log = order
              /\ \A c \in mandatory : init_result[c] = "ok"

C19_Steps ==
    /\ life = "aborted" => life' = "aborted" /\ ~running' /\ ~threads_started'
    /\ (~running /\ running') => life = "initialized"

C19_InitOrderAndAbort == []C19_State /\ [][C19_Steps]_vars

\* C19 witness: the uploader's initialize returned False after camera and
\* network came up; start() is over, GPS and monitor were never created,
\* nothing runs.
C19_Witness ==
    /\ life = "aborted"
    /\ init_log = <<"camera", "network", "uploader">>
    /\ init_result["camera"] = "ok"
    /\ init_result["network"] = "ok"
    /\ init_result["uploader"] = "false"
    /\ component["gps"] = "none"
    /\ component["monitor"] = "none"
    /\ ~running
    /\ ~threads_started

\* The other case of C19: the system running although GPS initialize
\* returned False.
C19_RunningWithoutGps ==
    /\ life = "running"
    /\ running
    /\ threads_started
    /\ init_result["gps"] = "false"
    /\ gps_mode = "closed"

\* C20: in every stop() call the uploader is cleaned up before the network
\* manager and the network manager before the camera.
C20_ReverseDependencyOrder ==
    LET Before(log, a, b) ==
            \A i, j \in 1..Len(log) : (log[i] = a /\ log[j] = b) => i < j
        Ordered(log) ==
            /\ Before(log, "uploader", "network")
            /\ Before(log, "network", "camera")
    IN  /\ Ordered(last_stop)
        /\ \A k \in 1..Len(stop_stack) : Ordered(stop_stack[k].log)

\* C21: once two or more stop() calls have been made and all of them have
\* returned, the system is stopped: self.running is False and no component
\* is left initialized.
C21_StoppedAfterRepeatedStop ==
    (stops >= 2 /\ stop_stack = <<>>) =>
        /\ ~running
        /\ \A c \in ComponentNames : component[c] # "ready"

\* C22: after a stop() call has set the stop flag, every loop eventually
\* exits and stays out: from some point on no loop is at its test, in its
\* body or in its except clause.
C22_LoopsExitAfterStop ==
    [](stops > 0 => <>[](\A l \in LoopNames :
                            loops[l] \notin {"test", "body", "except"}))

\* The part of C22 that holds: once the threads are started, a cleared flag
\* stays cleared and every loop exits; a loop enters an iteration only on a
\* flag it has read as set.
C22_StartedLoopsExit ==
    /\ (threads_started /\ ~running) ~> (\A l \in LoopNames : loops[l] = "exited")
    /\ [][/\ (threads_started /\ ~running) => ~running'
          /\ \A l \in LoopNames :
                (loops[l] # "body" /\ loops'[l] = "body")
                   => (running /\ loops[l] = "test")]_vars

\* C23: an exception raised in an iteration of the capture, monitor,
\* network or upload loop does not end the loop: from its except clause the
\* loop goes back to its test and nowhere else, a loop ends only at a test
\* that finds the flag cleared, and a loop in its except clause, or at its
\* test with the flag set, is never stuck: its next step is there to take.
C23_State ==
    \A l \in LoopNames :
        /\ (loops[l] = "except" /\ ThreadFree(l)) => ENABLED LoopExcept(l)
        /\ (loops[l] = "test" /\ running /\ ThreadFree(l)) => ENABLED LoopEnter(l)

C23_Steps ==
    \A l \in LoopNames :
        /\ (loops[l] = "except" /\ loops'[l] # "except") => loops'[l] = "test"
        /\ (loops[l] = "test" /\ running /\ loops'[l] # "test") => loops'[l] = "body"
        /\ (loops[l] # "exited" /\ loops'[l] = "exited")
              => (loops[l] = "test" /\ ~running)

C23_ErrorsDoNotEndLoops == []C23_State /\ [][C23_Steps]_vars

\* C23 witness: all four loops are in their except clause at once and the
\* system is running.
C23_Witness ==
    /\ running
    /\ life = "running"
    /\ \A l \in LoopNames : loops[l] = "except"

\* C23 for upload tasks: a failed run of _upload_item ends with the executor
\* thread free again.
C23_TaskErrorContained ==
    \A t \in Workers : (pc[t] = "fail") ~> (pc[t] = "idle")

\* C24: with records queued, retry_attempts at its largest value and a link
\* that flaps and then stays up, no record is ever quarantined or dropped,
\* and every queued record is uploaded once the link is stable. (The bound
\* of three poll intervals of the claim is not part of the formula.)
C24_State ==
    \A r \in records :
        /\ pf_count[r] = 0
        /\ ~InSeq(failed_uploads, r)
        /\ r \notin discarded

C24_FlappingAllUploaded ==
    /\ []C24_State
    /\ \A r \in FileIds : (link_stable /\ r \in records) ~> (r \in uploaded)

\* C25: connectivity_status (connected, interface), last_test_time and
\* current_interface are written only by a step taken while connection_lock
\* is held.
C25_MutatedOnlyUnderLock ==
    [][(\/ connected' # connected
        \/ status_interface' # status_interface
        \/ current_interface' # current_interface
        \/ age' < age)
          => connection_lock # "free"]_vars

C26_State ==
    /\ upload_stats.total_uploads
         = upload_stats.successful_uploads + upload_stats.failed_uploads
    /\ upload_stats.successful_uploads = Cardinality(uploaded)
    /\ SumTo(pf_count, MaxFiles) - upload_stats.failed_uploads
         = Cardinality({t \in Workers : pc[t] = "stats_fail"})

C26_Steps ==
    upload_stats' # upload_stats =>
        /\ upload_stats'.total_uploads = upload_stats.total_uploads + 1
        /\ \E t \in Workers :
              /\ pc[t] \in {"stats_ok", "stats_fail"}
              /\ pc'[t] # pc[t]
              /\ \A u \in Workers \ {t} : pc'[u] = pc[u]

Exceeds(value, limit) == value > limit

\* if temp > limit: critical; elif temp > limit - 10: warning.
TemperatureLevel(s) ==
    IF Exceeds(s.temperature, TemperatureLimit) THEN "critical"
    ELSE IF Exceeds(s.temperature, TemperatureLimit - 10) THEN "warning"
    ELSE "healthy"

\* if memory > limit: critical; elif memory > limit - 10: warning.
MemoryLevel(s) ==
    IF Exceeds(s.memory_percent, MemoryLimit) THEN "critical"
    ELSE IF Exceeds(s.memory_percent, MemoryLimit - 10) THEN "warning"
    ELSE "healthy"

\* if disk > limit: critical; elif disk > limit - 5: warning.
DiskLevel(s) ==
    IF Exceeds(s.disk_percent, DiskLimit) THEN "critical"
    ELSE IF Exceeds(s.disk_percent, DiskLimit - 5) THEN "warning"
    ELSE "healthy"

\* if cpu > limit: warning; CPU usage is never critical.
CpuLevel(s) ==
    IF Exceeds(s.cpu_percent, CpuLimit) THEN "warning" ELSE "healthy"

\* if currently_throttled: critical; elif under_voltage_detected: warning.
ThrottledLevel(s) ==
    IF s.currently_throttled THEN "critical"
    ELSE IF s.under_voltage_detected THEN "warning"
    ELSE "healthy"

\* Mutant of SetWarning: a warning overwrites whatever status was there.
SetWarningAlways(status) == "warning"

\* if health['status'] == 'healthy': health['status'] = 'warning'
SetWarning(status) == IF status = "healthy" THEN "warning" ELSE status

\* One dimension's block of check_health: append the message and set the
\* status.
ApplyLevel(h, dimension, level) ==
    IF level = "critical"
    THEN [h EXCEPT !.alerts = Append(@, dimension), !.status = "critical"]
    ELSE IF level = "warning"
    THEN [h EXCEPT !.warnings = Append(@, dimension),
                   !.status = SetWarning(@)]
    ELSE h

\* stats = self.get_system_stats(); health = {'status': 'healthy', ...}
CheckHealthBegin(s) ==
    /\ health_pc \in {"idle", "done"}
    /\ stats' = s
    /\ health' = NewHealth
    /\ health_pc' = "temperature"
    /\ UNCHANGED <<pipeVars, gps_data, gpsVars, lifeVars, envVars, keyVars, shutVars, switchVars>>

CheckTemperature ==
    /\ health_pc = "temperature"
    /\ health' = ApplyLevel(health, "temperature", TemperatureLevel(stats))
    /\ health_pc' = "memory"
    /\ UNCHANGED <<pipeVars, gps_data, gpsVars, lifeVars, envVars, keyVars, shutVars, switchVars, stats>>

CheckMemory ==
    /\ health_pc = "memory"
    /\ health' = ApplyLevel(health, "memory", MemoryLevel(stats))
    /\ health_pc' = "disk"
    /\ UNCHANGED <<pipeVars, gps_data, gpsVars, lifeVars, envVars, keyVars, shutVars, switchVars, stats>>

CheckDisk ==
    /\ health_pc = "disk"
    /\ health' = ApplyLevel(health, "disk", DiskLevel(stats))
    /\ health_pc' = "cpu"
    /\ UNCHANGED <<pipeVars, gps_data, gpsVars, lifeVars, envVars, keyVars, shutVars, switchVars, stats>>

CheckCpu ==
    /\ health_pc = "cpu"
    /\ health' = ApplyLevel(health, "cpu", CpuLevel(stats))
    /\ health_pc' = "throttled"
    /\ UNCHANGED <<pipeVars, gps_data, gpsVars, lifeVars, envVars, keyVars, shutVars, switchVars, stats>>

\* The last block; check_health returns health.
CheckThrottling ==
    /\ health_pc = "throttled"
    /\ health' = ApplyLevel(health, "throttled", ThrottledLevel(stats))
    /\ health_pc' = "done"
    /\ UNCHANGED <<pipeVars, gps_data, gpsVars, lifeVars, envVars, keyVars, shutVars, switchVars, stats>>

NextHealth ==
    \/ \E s \in StatsValues : CheckHealthBegin(s)
    \/ CheckTemperature
    \/ CheckMemory
    \/ CheckDisk
    \/ CheckCpu
    \/ CheckThrottling

\* The monitor reads none of the pipeline's configuration: one configuration.
InitHealth == InitLink

SpecHealth == InitHealth /\ [][NextHealth]_vars

\* The dimensions of a sample and the level check_health gives each.
Dimensions == <<"temperature", "memory", "disk", "cpu", "throttled">>

LevelOf(dimension, s) ==
    CASE dimension = "temperature" -> TemperatureLevel(s)
      [] dimension = "memory" -> MemoryLevel(s)
      [] dimension = "disk" -> DiskLevel(s)
      [] dimension = "cpu" -> CpuLevel(s)
      [] dimension = "throttled" -> ThrottledLevel(s)

\* The dimensions a running call has already evaluated.
Evaluated ==
    CASE health_pc \in {"idle", "temperature"} -> {}
      [] health_pc = "memory" -> {1}
      [] health_pc = "disk" -> 1..2
      [] health_pc = "cpu" -> 1..3
      [] health_pc = "throttled" -> 1..4
      [] health_pc = "done" -> 1..5

\* C27: a dimension found critical makes the severity critical from that
\* point of the evaluation on, whatever the other dimensions are and
\* wherever in the order they are evaluated; the returned severity is
\* critical iff some dimension is critical, warning iff none is critical
\* and at least one is at warning level, and healthy otherwise.
C27_State ==
    LET crit == \E i \in Evaluated : LevelOf(Dimensions[i], stats) = "critical"
        warn == \E i \in Evaluated : LevelOf(Dimensions[i], stats) = "warning"
    IN  /\ crit => health.status = "critical"
        /\ (~crit /\ warn) <=> health.status = "warning"
        /\ (~crit /\ ~warn) => health.status = "healthy"

C27_Steps ==
    (health_pc' # "temperature" /\ health.status = "critical")
        => health'.status = "critical"

C27_CriticalDominates == []C27_State /\ [][C27_Steps]_vars

\* C27 witness: temperature, evaluated first, is critical; every later
\* dimension is at warning level; the call has returned critical with one
\* alert and four warnings.
C27_Witness ==
    /\ health_pc = "done"
    /\ TemperatureLevel(stats) = "critical"
    /\ \A i \in 2..5 : LevelOf(Dimensions[i], stats) = "warning"
    /\ health.status = "critical"
    /\ health.alerts = <<"temperature">>
    /\ Len(health.warnings) = 4

\* C28: a sample with disk exactly at DiskLimit, or memory exactly at
\* MemoryLimit, or temperature exactly at TemperatureLimit is classified
\* critical.
C28_ExactLimitIsCritical ==
    (/\ health_pc = "done"
     /\ \/ stats.temperature = TemperatureLimit
        \/ stats.memory_percent = MemoryLimit
        \/ stats.disk_percent = DiskLimit)
        => health.status = "critical"

\* ------------------------------------------------------ remote storage key
\* Hours of wall-clock time the model lets pass.
MaxHours == 1

\* The wall clock passes an hour boundary.
HourTick ==
    /\ now_hour < MaxHours
    /\ now_hour' = now_hour + 1
    /\ UNCHANGED <<pipeVars, gps_data, gpsVars, lifeVars, envVars, healthVars,
                   blobs, shutVars, switchVars>>

\* The executor threads, with the bucket.
KeyExecutorStep(t) ==
    \/ BeginUpload(t)
    \/ \E ok \in BOOLEAN : UploadToGcsBlob(t, ok)
    \/ \E ok \in BOOLEAN : SendToApi(t, ok)
    \/ StatsOk(t)
    \/ Unlink(t)
    \/ HandleUploadFailure(t)
    \/ StatsFail(t)

\* The pipeline with the wall clock and the bucket.
NextKey ==
    \/ \E ok \in BOOLEAN : MainCaptureLoop(ok)
    \/ \E f \in FileIds : AddToQueue(f)
    \/ \E ok \in BOOLEAN : UploadWorkerLoop(ok)
    \/ \E t \in Workers : KeyExecutorStep(t)
    \/ HourTick

InitKey == InitLink

SpecKey == InitKey /\ [][NextKey]_vars

\* C29: every upload attempt of a record writes to the same key: the bucket
\* never holds two blob names for one record.
C29_OneKeyPerRecord == \A r \in FileIds : Cardinality(blobs[r]) <= 1

\* C30: the quarantine list is bounded whatever the number of records that
\* exhaust their retries: a bound fixed by the configuration does not grow
\* with the records, so when every one of the MaxFiles records has
\* exhausted its retries the list does not hold them all.
C30_QuarantineBounded == Len(failed_uploads) < MaxFiles

\* ------------------------------------------------- stop() and the uploader
\* The state in which start() has reached _main_capture_loop: every
\* component came up, self.running is True and the three threads run.
LifeRunning ==
    /\ life = "running"
    /\ running = TRUE
    /\ threads_started = TRUE
    /\ component = [c \in ComponentNames |-> "ready"]
    /\ init_log = Components
    /\ init_result = [c \in ComponentNames |-> "ok"]
    /\ stop_stack = <<>>
    /\ last_stop = <<>>
    /\ stops = 0
    /\ loops = [l \in LoopNames |-> "test"]
    /\ gps_mode = "mock"

\* Mutant of FilesAfterCleanup: the files of the drained items are removed.
FilesAfterCleanupPurged(fs, items) == fs \ {items[i] : i \in 1..Len(items)}

\* GCPUploader.cleanup collects the queued items in remaining_items, logs
\* their number and does nothing else with them ("Could save to file").
FilesAfterCleanup(fs, items) == fs


\* upload_executor.shutdown() has been called: submit raises RuntimeError.
ExecutorDown == cleanup_pc \in {"waiting", "done"}

\* process_queue: get_nowait, then submit; a submit that raises is caught by
\* 'except Exception' and logged, the item it took is in no collection.
ProcessQueueSubmit ==
    IF upload_queue = <<>>
    THEN UNCHANGED <<upload_queue, exec_pending, unsubmitted>>
    ELSE /\ upload_queue' = Tail(upload_queue)
         /\ IF ExecutorDown
            THEN /\ unsubmitted' = unsubmitted \cup {Head(upload_queue)}
                 /\ UNCHANGED exec_pending
            ELSE /\ exec_pending' = Append(exec_pending, Head(upload_queue))
                 /\ UNCHANGED unsubmitted

\* The body of one iteration of _upload_worker_loop, entered while
\* self.running was True: is_connected(), then process_queue.
UploadWorkerIteration(ok) ==
    /\ loops["upload"] = "body"
    /\ CheckConnectivityEffect(ok)
    /\ report' = Report("is_connected", connected', ok_age')
    /\ IF IsConnectedGate(connected')
       THEN ProcessQueueSubmit
       ELSE UNCHANGED <<upload_queue, exec_pending, unsubmitted>>
    /\ loops' = [loops EXCEPT !["upload"] = "test"]
    /\ UNCHANGED <<camVars, retry_attempts, cleanup_after_upload, records,
                   retry_count, failed_uploads, upload_stats, task, pc,
                   replay_idx, replays, histVars, current_interface, estVars>>
    /\ UNCHANGED <<life, running, threads_started, component, init_log,
                   init_result, stop_stack, last_stop, stops>>
    /\ UNCHANGED <<gps_data, gpsVars, envVars, healthVars, keyVars,
                   cleanup_pc, remaining_items, switchVars>>

\* stop() up to the uploader: self.running = False, the joins with their
\* 5 s timeout, camera_manager.cleanup() and network_manager.cleanup().
Stop ==
    /\ cleanup_pc = "idle"
    /\ running
    /\ running' = FALSE
    /\ cleanup_pc' = "stopping"
    /\ UNCHANGED <<life, threads_started, component, init_log, init_result,
                   stop_stack, last_stop, stops, loops>>
    /\ UNCHANGED <<pipeVars, gps_data, gpsVars, envVars, healthVars, keyVars,
                   remaining_items, unsubmitted, switchVars>>

\* GCPUploader.cleanup calls upload_executor.shutdown(wait=True).
ExecutorShutdown ==
    /\ cleanup_pc = "stopping"
    /\ cleanup_pc' = "waiting"
    /\ UNCHANGED <<pipeVars, gps_data, gpsVars, lifeVars, envVars, healthVars,
                   keyVars, remaining_items, unsubmitted, switchVars>>

\* shutdown(wait=True) returns when every submitted task has ended; cleanup
\* then empties upload_queue into remaining_items and returns.
CleanupDrain ==
    /\ cleanup_pc = "waiting"
    /\ exec_pending = <<>>
    /\ \A t \in Workers : pc[t] = "idle"
    /\ remaining_items' = upload_queue
    /\ upload_queue' = <<>>
    /\ files' = FilesAfterCleanup(files, upload_queue)
    /\ cleanup_pc' = "done"
    /\ UNCHANGED <<next_file, max_images, captures_ok, loop_pushed,
                   retry_attempts, cleanup_after_upload, records, retry_count,
                   failed_uploads, upload_stats, exec_pending, task, pc,
                   replay_idx, replays, histVars, netVars>>
    /\ UNCHANGED <<gps_data, gpsVars, lifeVars, envVars, healthVars, keyVars,
                   unsubmitted, switchVars>>

\* The main thread is not inside stop(): the capture loop can run.
MainThreadFree == cleanup_pc \in {"idle", "done"}

\* The pipeline of a started system, with stop().
NextShutdown ==
    \/ \E ok \in BOOLEAN : MainThreadFree /\ MainCaptureLoop(ok)
    \/ \E f \in FileIds : MainThreadFree /\ AddToQueue(f)
    \/ LoopEnter("upload")
    \/ \E ok \in BOOLEAN : UploadWorkerIteration(ok)
    \/ LoopExit("upload")
    \/ \E t \in Workers : ExecutorStep(t)
    \/ Stop
    \/ ExecutorShutdown
    \/ CleanupDrain

InitShutdown ==
    /\ InitConstructed
    /\ max_images \in MaxImagesValues
    /\ retry_attempts = 2
    /\ cleanup_after_upload
    /\ LifeRunning

SpecShutdown == InitShutdown /\ [][NextShutdown]_vars

\* C31: stop() never deletes the local file of a record that has not been
\* uploaded. A file leaves the storage directory only by the eviction at the
\* end of capture_image or by the unlink of the task that has counted the
\* record as uploaded; the steps of stop() and of the uploader's cleanup
\* leave files and the quarantine list alone; a record that is not uploaded
\* and is still among the max_images newest captures has its file.
C31_Steps ==
    /\ \A f \in files \ files' :
          \/ next_file' # next_file
          \/ /\ f \in uploaded
             /\ \E t \in Workers : task[t] = f /\ pc[t] = "unlink"
    /\ cleanup_pc' # cleanup_pc =>
          /\ files' = files
          /\ failed_uploads' = failed_uploads
          /\ uploaded' = uploaded

C31_State ==
    \A r \in records :
        (r \notin uploaded /\ next_file - 1 - r < max_images) => r \in files

C31_StopKeepsFiles == []C31_State /\ [][C31_Steps]_vars

\* C31 witness: stop() has finished; one record that was still queued is
\* only in the drained list, another is quarantined, neither was uploaded
\* and both files are on disk.
C31_Witness ==
    /\ cleanup_pc = "done"
    /\ \E r, q \in records :
          /\ r # q
          /\ InSeq(remaining_items, r)
          /\ InSeq(failed_uploads, q)
          /\ {r, q} \cap uploaded = {}
          /\ {r, q} \subseteq files

\* C32: check_connectivity called at most 30 s after the last probe makes no
\* probe, leaves the cached status and last_test_time as they are and
\* returns the cached answer; called more than 30 s after the last probe,
\* successful or not, it makes one probe, which sets last_test_time, and
\* returns the result of that probe.
C32_Steps ==
    \A ok \in BOOLEAN :
        NetworkMonitorLoop(ok) =>
            IF age <= StalenessSeconds
            THEN /\ UNCHANGED <<connected, status_interface, age, ok_age>>
                 /\ report'.connected = connected
            ELSE /\ age' = 0
                 /\ connected' = ok
                 /\ report'.connected = ok

C32_CachedWithinStaleness == [][C32_Steps]_vars

\* C32 witness: check_connectivity has answered "connected" from the cache
\* exactly 30 s after the probe that found the link up.
C32_Witness ==
    /\ report = Report("check_connectivity", TRUE, StalenessSeconds)
    /\ connected
    /\ age = StalenessSeconds

\* ------------------------------------------------ switch_interface calls
\* The connectivity manager with an operator who switches interfaces.
NextSwitch ==
    \/ \E ok \in BOOLEAN : NetworkMonitorLoop(ok)
    \/ \E n \in NetThreads : EstablishConnection(n)
    \/ \E n \in NetThreads, bringup \in BOOLEAN, probe \in BOOLEAN :
            TryInterface(n, bringup, probe)
    \/ \E type \in InterfaceTypes, bringup \in BOOLEAN, probe \in BOOLEAN :
            SwitchInterfaceCall(type, bringup, probe)
    \/ Tick

InitSwitch == InitNet

SpecSwitch == InitSwitch /\ [][NextSwitch]_vars

\* C33: a switch_interface(type) call that returns True leaves
\* current_interface = type and connected true; one that returns False
\* leaves current_interface as it was and, when it has disconnected the
\* current interface, does not leave the status at connected = true.
C33_Steps ==
    \A type \in InterfaceTypes, bringup \in BOOLEAN, probe \in BOOLEAN :
        SwitchInterfaceCall(type, bringup, probe) =>
            /\ switch_ret' = "true" =>
                  (current_interface' = type /\ connected')
            /\ switch_ret' = "false" =>
                  /\ current_interface' = current_interface
                  /\ disconnected' # "none" => ~connected'

C33_SwitchResult == [][C33_Steps]_vars

\* C34: the retry counter of an enqueued record never decreases, whatever
\* happens to the record: re-enqueue after a failure, quarantine, replay.
C34_RetryCountMonotonic ==
    [][\A r \in records : retry_count'[r] >= retry_count[r]]_vars

\* C35: no enqueued record is ever dropped, during and after stop()
\* included: each one is in the queue, submitted to or held by an upload
\* task, in the quarantine list, uploaded, discarded as stale, or in the list
\* the uploader's cleanup drained the queue into; in particular a record
\* that process_queue took from the queue has been handed to an upload task.
C35_RecordConserved ==
    \A r \in records :
        \/ InSeq(upload_queue, r)
        \/ InSeq(exec_pending, r)
        \/ \E t \in Workers : task[t] = r /\ pc[t] # "idle"
        \/ InSeq(failed_uploads, r)
        \/ r \in uploaded
        \/ r \in discarded
        \/ InSeq(remaining_items, r)

\* C36: an attempt whose storage upload and API call both succeeded ends
\* with the record uploaded and never enters the failure handling: the
\* retry counter is not incremented and the record is neither re-enqueued
\* nor quarantined, also when the file is evicted in between.
C36_SuccessNeverHandledAsFailure ==
    [][\A t \in Workers :
          (pc[t] \in {"stats_ok", "unlink"} /\ pc'[t] # pc[t]) =>
              /\ pc'[t] # "fail"
              /\ task[t] \in uploaded']_vars

\* C37: retry_failed_uploads loses no record, also when a task appends to
\* the quarantine list while the replay runs: a record that was quarantined
\* is still in the quarantine list, or back in the queue, or with the
\* executor, or has ended as uploaded or discarded.
C37_ReplayLosesNothing ==
    \A r \in records :
        pf_count[r] > 0 =>
            \/ Quarantined(r)
            \/ InSeq(upload_queue, r)
            \/ InSeq(exec_pending, r)
            \/ \E t \in Workers : task[t] = r /\ pc[t] # "idle"
            \/ r \in uploaded
            \/ r \in discarded

\* ------------------------------------------------ every max_local_images
\* max_local_images is read from the configuration without validation: 0 is
\* a value it can have.
MaxLocalImagesValues == {0} \cup MaxImagesValues

InitCapture ==
    /\ InitConstructed
    /\ LifeCreated
    /\ max_images \in MaxLocalImagesValues
    /\ retry_attempts = 2
    /\ cleanup_after_upload

\* The pipeline under every value of max_local_images.
SpecCapture == InitCapture /\ [][Next]_vars

\* C38: after capture_image has returned, the storage directory holds at
\* most max_local_images image files, for every configured value, 0
\* included, and the file just returned exists when max_local_images >= 1.
C38_State == Cardinality(files) <= max_images

C38_Steps ==
    (next_file' # next_file /\ max_images >= 1) => next_file \in files'

C38_AtMostMaxLocalImages == []C38_State /\ [][C38_Steps]_vars

\* C39: the interface recorded in the connectivity status is the manager's
\* current_interface; in particular after a successful
\* _establish_connection the status names the interface just connected.
C39_StatusNamesCurrentInterface == status_interface = current_interface

\* C40: when initialize_components has failed and start() has returned
\* False, no component is left initialized: every component that had been
\* brought up has been released again.
C40_AbortReleasesComponents ==
    life = "aborted" => \A c \in ComponentNames : component[c] # "ready"

====
